---------------------------- MODULE Spec2Model ----------------------------
(***************************************************************************)
(* Model of the schedule matcher of Project_Data_Collection                *)
(* (src/scheduling.py, class WebScheduleMatcher).                          *)
(*                                                                         *)
(* Representation                                                          *)
(*   - a time string "HH:MM" is the pair <<HH, MM>>; a time slot is a pair *)
(*     of time strings <<start, end>>, compared structurally as Python     *)
(*     compares tuples of strings;                                         *)
(*   - a float is an exact rational [num, den] in lowest terms; points are *)
(*     counted in half-points (the code adds 1 and 0.5, both exact);       *)
(*   - a value rounded to one decimal is an integer number of tenths;      *)
(*   - the outcome of a call is a record with a field kind: "ok", "error"  *)
(*     (an error carried in the normal return value) or "raise" (an        *)
(*     exception that leaves the method).                                  *)
(***************************************************************************)
EXTENDS Integers, Sequences, FiniteSets, TLC

VARIABLES
    db_type,                    \* db_config['type'] ("none": db_config is None)
    sample_users,               \* table sample_users: the stored usn values
    sample_user_availability,   \* table sample_user_availability: set of rows
    matcher,                    \* the fields of the matcher instance
    session_state,              \* st.session_state of the data collection form
    call,                       \* the last operation invoked and its arguments
    result                      \* what that operation returned or raised

vars == <<db_type, sample_users, sample_user_availability, matcher, session_state,
          call, result>>

-----------------------------------------------------------------------------
(* Matcher instance fields, WebScheduleMatcher.__init__                     *)

time_slots ==
    << <<<<0, 0>>, <<2, 0>>>>,   <<<<2, 0>>, <<4, 0>>>>,
       <<<<4, 0>>, <<6, 0>>>>,   <<<<6, 0>>, <<8, 0>>>>,
       <<<<8, 0>>, <<10, 0>>>>,  <<<<10, 0>>, <<12, 0>>>>,
       <<<<12, 0>>, <<14, 0>>>>, <<<<14, 0>>, <<16, 0>>>>,
       <<<<16, 0>>, <<18, 0>>>>, <<<<18, 0>>, <<20, 0>>>>,
       <<<<20, 0>>, <<22, 0>>>>, <<<<22, 0>>, <<0, 0>>>> >>

days ==
    <<"sunday", "monday", "tuesday", "wednesday", "thursday", "friday", "saturday">>

Range(s) == {s[i] : i \in DOMAIN s}

DayNames == Range(days)

GridSlots == Range(time_slots)

\* the fields __init__ leaves in the instance; users_cache is an empty dict
MatcherFields ==
    [time_slots      |-> time_slots,
     days            |-> days,
     users_cache     |-> <<>>,
     cache_timestamp |-> "None"]

\* an operation that stamps the cache when it has loaded profiles
FieldsAfterOperation_stamped(fields) == [fields EXCEPT !.cache_timestamp = "now"]

\* the instance fields after calculate_schedule_match_percentage,
\* get_profile_recommendations or find_team_meeting_slots has run: none of
\* them assigns to a field of self
FieldsAfterOperation(fields) == fields

-----------------------------------------------------------------------------
(* Exact arithmetic standing for the float arithmetic of the code           *)

RECURSIVE GCD(_, _)
GCD(a, b) == IF b = 0 THEN a ELSE GCD(b, a % b)

\* the rational n/d (n >= 0, d > 0) in lowest terms
Rat(n, d) == LET g == GCD(n, d) IN [num |-> n \div g, den |-> d \div g]

RatAdd(x, y) == Rat(x.num * y.den + y.num * x.den, x.den * y.den)

RatMul(x, y) == Rat(x.num * y.num, x.den * y.den)

RatGeq(x, y) == x.num * y.den >= y.num * x.den

\* the value cut to one decimal instead of rounded
Round1_truncate(x) == (x.num * 10) \div x.den

\* round(x, 1) in tenths: to the nearest tenth, an exact tie to the even tenth
Round1(x) ==
    LET t   == x.num * 10
        fl  == t \div x.den
        rem == t % x.den
    IN  IF 2 * rem > x.den THEN fl + 1
        ELSE IF 2 * rem < x.den THEN fl
        ELSE IF fl % 2 = 0 THEN fl ELSE fl + 1

-----------------------------------------------------------------------------
(* get_overlapping_slots                                                    *)

time_to_minutes(time_str) == time_str[1] * 60 + time_str[2]

\* an overlap test on the 24-hour clock: a slot that does not cross midnight
\* is also compared a day later, against the part of the other slot that lies
\* after midnight
get_overlapping_slots_wrapped(slot1, slot2) ==
    LET start1_min == time_to_minutes(slot1[1])
        end1_raw   == time_to_minutes(slot1[2])
        start2_min == time_to_minutes(slot2[1])
        end2_raw   == time_to_minutes(slot2[2])
        end1_min   == IF end1_raw <= start1_min THEN end1_raw + 24 * 60 ELSE end1_raw
        end2_min   == IF end2_raw <= start2_min THEN end2_raw + 24 * 60 ELSE end2_raw
        meet(s1, e1, s2, e2) == ~(e1 <= s2 \/ e2 <= s1)
    IN  \/ meet(start1_min, end1_min, start2_min, end2_min)
        \/ meet(start1_min, end1_min, start2_min + 24 * 60, end2_min + 24 * 60)
        \/ meet(start1_min + 24 * 60, end1_min + 24 * 60, start2_min, end2_min)

\* get_overlapping_slots without the midnight adjustment of the second slot
get_overlapping_slots_first_only(slot1, slot2) ==
    LET start1_min == time_to_minutes(slot1[1])
        end1_raw   == time_to_minutes(slot1[2])
        start2_min == time_to_minutes(slot2[1])
        end2_min   == time_to_minutes(slot2[2])
        end1_min   == IF end1_raw <= start1_min THEN end1_raw + 24 * 60 ELSE end1_raw
    IN  ~(end1_min <= start2_min \/ end2_min <= start1_min)

get_overlapping_slots(slot1, slot2) ==
    LET start1_min == time_to_minutes(slot1[1])
        end1_raw   == time_to_minutes(slot1[2])
        start2_min == time_to_minutes(slot2[1])
        end2_raw   == time_to_minutes(slot2[2])
        end1_min   == IF end1_raw <= start1_min THEN end1_raw + 24 * 60 ELSE end1_raw
        end2_min   == IF end2_raw <= start2_min THEN end2_raw + 24 * 60 ELSE end2_raw
    IN  ~(end1_min <= start2_min \/ end2_min <= start1_min)

-----------------------------------------------------------------------------
(* Profile loading: load_user_profiles and the three back ends              *)

\* strftime('%H:%M') of a stored time of day
strftime_HM(t) == <<t[1], t[2]>>

initialize_empty_schedule ==
    [day \in DayNames |-> [available |-> {}, avoid |-> {}]]

\* the rows of one user that the availability loop accepts for one day
RowsOfDay(usn, day) ==
    {avail \in sample_user_availability :
        /\ avail.usn = usn
        /\ 0 <= avail.day_of_week /\ avail.day_of_week <= 6
        /\ days[avail.day_of_week + 1] = day}

\* the user rows selected by the filter on user_ids (no filter when empty)
SelectedUsers(user_ids) ==
    IF user_ids = <<>> THEN sample_users
    ELSE {user \in sample_users : user.usn \in Range(user_ids)}

\* a loader that hands out the valid slots, available minus avoid, as the
\* available set
load_from_postgresql_valid(user_ids) ==
    LET users == SelectedUsers(user_ids)
        row(usn) == CHOOSE user \in users : user.usn = usn
        slots(usn, day, flag) ==
            {<<strftime_HM(avail.time_slot_start), strftime_HM(avail.time_slot_end)>> :
                avail \in {a \in RowsOfDay(usn, day) : a.is_available = flag}}
    IN  [usn \in {user.usn : user \in users} |->
            [name       |-> <<row(usn).first_name, row(usn).last_name>>,
             first_name |-> row(usn).first_name,
             last_name  |-> row(usn).last_name,
             schedule   |->
                [day \in DayNames |->
                    [available |-> slots(usn, day, TRUE) \ slots(usn, day, FALSE),
                     avoid     |-> slots(usn, day, FALSE)]]]]

load_from_postgresql(user_ids) ==
    LET users == SelectedUsers(user_ids)
        row(usn) == CHOOSE user \in users : user.usn = usn
    IN  [usn \in {user.usn : user \in users} |->
            [name       |-> <<row(usn).first_name, row(usn).last_name>>,
             first_name |-> row(usn).first_name,
             last_name  |-> row(usn).last_name,
             schedule   |->
                [day \in DayNames |->
                    [available |->
                        {<<strftime_HM(avail.time_slot_start), strftime_HM(avail.time_slot_end)>> :
                            avail \in {a \in RowsOfDay(usn, day) : a.is_available}},
                     avoid |->
                        {<<strftime_HM(avail.time_slot_start), strftime_HM(avail.time_slot_end)>> :
                            avail \in {a \in RowsOfDay(usn, day) : ~a.is_available}}]]]]

load_from_supabase(user_ids) ==
    LET users == SelectedUsers(user_ids)
        row(usn) == CHOOSE user \in users : user.usn = usn
    IN  [usn \in {user.usn : user \in users} |->
            [name       |-> <<row(usn).first_name, row(usn).last_name>>,
             first_name |-> row(usn).first_name,
             last_name  |-> row(usn).last_name,
             schedule   |->
                [day \in DayNames |->
                    [available |->
                        {<<avail.time_slot_start, avail.time_slot_end>> :
                            avail \in {a \in RowsOfDay(usn, day) : a.is_available}},
                     avoid |->
                        {<<avail.time_slot_start, avail.time_slot_end>> :
                            avail \in {a \in RowsOfDay(usn, day) : ~a.is_available}}]]]]

\* what load_user_profiles returns: a mapping, or None when no branch returns
Loaded(profiles) == [none |-> FALSE, profiles |-> profiles]

NoProfiles == [usn \in {} |-> initialize_empty_schedule]

load_user_profiles(user_ids) ==
    CASE db_type = "postgresql" -> Loaded(load_from_postgresql(user_ids))
      [] db_type = "supabase"   -> Loaded(load_from_supabase(user_ids))
      \* _load_from_sqlalchemy calls text(), which the module never imports:
      \* the NameError is caught and the empty mapping returned
      [] db_type = "sqlalchemy" -> Loaded(NoProfiles)
      \* db_config is None: the subscript raises TypeError, caught likewise
      [] db_type = "none"       -> Loaded(NoProfiles)
      \* any other type: no branch is taken and the method returns None
      [] OTHER                  -> [none |-> TRUE, profiles |-> NoProfiles]

-----------------------------------------------------------------------------
(* calculate_schedule_match_percentage                                      *)

\* an optional preferred_days argument: None, or a list of day names
NoneDays == [none |-> TRUE, list |-> <<>>]

DayList(list) == [none |-> FALSE, list |-> list]

Raise(exc) == [kind |-> "raise", exc |-> exc]

RECURSIVE SeqSum(_)
SeqSum(s) == IF s = <<>> THEN 0 ELSE Head(s) + SeqSum(Tail(s))

\* the exact matches of the loop over self.time_slots, in half-points
ExactCredit2(user1_available, user2_available) ==
    2 * Cardinality({i \in DOMAIN time_slots :
            time_slots[i] \in user1_available /\ time_slots[i] \in user2_available})

\* slot1 != slot2: the two entries are not the same slot
DistinctSlots(slot1, slot2) == slot1 # slot2

\* the partial overlaps when the outer loop runs over the grid slots of user 1 only
PartialCredit2_grid_outer(user1_available, user2_available) ==
    Cardinality({p \in (user1_available \cap GridSlots) \X user2_available :
            DistinctSlots(p[1], p[2]) /\ get_overlapping_slots(p[1], p[2])})

\* the partial overlaps of the nested loop over both available sets, in half-points
PartialCredit2(user1_available, user2_available) ==
    Cardinality({p \in user1_available \X user2_available :
            DistinctSlots(p[1], p[2]) /\ get_overlapping_slots(p[1], p[2])})

\* day_common of one day, in half-points
DayCommon2(user1_available, user2_available) ==
    ExactCredit2(user1_available, user2_available)
        + PartialCredit2(user1_available, user2_available)

\* day_total = len(self.time_slots)
DayTotal == Len(time_slots)

\* the entry day_breakdown[day] with day_percentage held at 100 at most
DayEntry_capped(user1_available, user2_available) ==
    LET day_common2 == DayCommon2(user1_available, user2_available)
    IN  [common_slots    |-> day_common2 \div 2,
         total_possible  |-> DayTotal,
         day_percentage  |-> IF day_common2 > 2 * DayTotal THEN Rat(100, 1)
                             ELSE Rat(day_common2 * 100, 2 * DayTotal),
         user1_available |-> Cardinality(user1_available),
         user2_available |-> Cardinality(user2_available)]

\* the entry day_breakdown[day]
DayEntry(user1_available, user2_available) ==
    LET day_common2 == DayCommon2(user1_available, user2_available)
    IN  [common_slots    |-> day_common2 \div 2,
         total_possible  |-> DayTotal,
         day_percentage  |-> IF DayTotal > 0 THEN Rat(day_common2 * 100, 2 * DayTotal)
                             ELSE Rat(0, 1),
         user1_available |-> Cardinality(user1_available),
         user2_available |-> Cardinality(user2_available)]

\* _calculate_meeting_potential without the bonus for days of 3 common slots
calculate_meeting_potential_no_bonus(day_breakdown) ==
    LET total_days == Cardinality(DOMAIN day_breakdown)
        RECURSIVE total_score(_)
        total_score(ds) ==
            IF ds = {} THEN Rat(0, 1)
            ELSE LET day == CHOOSE d \in ds : TRUE
                 IN  RatAdd(day_breakdown[day].day_percentage, total_score(ds \ {day}))
    IN  IF total_days > 0
        THEN RatMul(total_score(DOMAIN day_breakdown), Rat(1, total_days))
        ELSE Rat(0, 1)

\* _calculate_meeting_potential
calculate_meeting_potential(day_breakdown) ==
    LET total_days == Cardinality(DOMAIN day_breakdown)
        day_score(day) ==
            IF day_breakdown[day].common_slots >= 3
            THEN RatMul(day_breakdown[day].day_percentage, Rat(12, 10))
            ELSE day_breakdown[day].day_percentage
        RECURSIVE total_score(_)
        total_score(ds) ==
            IF ds = {} THEN Rat(0, 1)
            ELSE LET day == CHOOSE d \in ds : TRUE
                 IN  RatAdd(day_score(day), total_score(ds \ {day}))
    IN  IF total_days > 0
        THEN RatMul(total_score(DOMAIN day_breakdown), Rat(1, total_days))
        ELSE Rat(0, 1)

\* _calculate_recommendation_score
calculate_recommendation_score(match_percentage, meeting_potential) ==
    RatAdd(RatMul(match_percentage, Rat(6, 10)), RatMul(meeting_potential, Rat(4, 10)))

\* the not-found test with 'and' in place of 'or'
BothFound_either(profiles, user1_id, user2_id) ==
    user1_id \in DOMAIN profiles \/ user2_id \in DOMAIN profiles

\* the test 'user1_id not in users_data or user2_id not in users_data', negated
BothFound(profiles, user1_id, user2_id) ==
    user1_id \in DOMAIN profiles /\ user2_id \in DOMAIN profiles

calculate_schedule_match_percentage(user1_id, user2_id, preferred_days) ==
    LET users_data == load_user_profiles(<<user1_id, user2_id>>)
        profiles   == users_data.profiles
        scope      == IF preferred_days.none THEN days ELSE preferred_days.list
        available(usn, day) == profiles[usn].schedule[day].available
        day_common2 == [i \in DOMAIN scope |->
                            DayCommon2(available(user1_id, scope[i]),
                                       available(user2_id, scope[i]))]
        common_slots2        == SeqSum(day_common2)
        total_possible_slots == Len(scope) * DayTotal
        day_breakdown == [day \in Range(scope) |->
                            DayEntry(available(user1_id, day), available(user2_id, day))]
        match_percentage ==
            IF total_possible_slots > 0
            THEN Rat(common_slots2 * 100, 2 * total_possible_slots)
            ELSE Rat(0, 1)
        meeting_potential == calculate_meeting_potential(day_breakdown)
    IN  IF users_data.none
        THEN Raise("TypeError")      \* 'in' applied to None
        ELSE IF ~BothFound(profiles, user1_id, user2_id)
        THEN [kind             |-> "error",
              error            |-> "One or both users not found",
              match_percentage |-> 0,
              common_slots     |-> 0]
        ELSE IF /\ scope # <<>>
                /\ \/ user1_id \notin DOMAIN profiles
                   \/ user2_id \notin DOMAIN profiles
                   \/ \E i \in DOMAIN scope : scope[i] \notin DayNames
        THEN Raise("KeyError")       \* a subscript in the loop body has no such key
        ELSE [kind                 |-> "ok",
              match_percentage     |-> Round1(match_percentage),
              common_slots         |-> common_slots2 \div 2,
              total_possible_slots |-> total_possible_slots,
              day_breakdown        |-> day_breakdown,
              meeting_potential    |-> meeting_potential,
              recommendation_score |->
                  calculate_recommendation_score(match_percentage, meeting_potential)]

-----------------------------------------------------------------------------
(* The stored data the operations run against                               *)

\* rows of sample_users (insert_sample_data)
SampleUsers ==
    {[usn |-> "USN001", first_name |-> "John", last_name |-> "Doe"],
     [usn |-> "USN002", first_name |-> "Jane", last_name |-> "Smith"],
     [usn |-> "USN003", first_name |-> "Mike", last_name |-> "Johnson"]}

StoredUsns == {user.usn : user \in SampleUsers}

\* the identifiers a caller passes: the stored ones and one that is not stored
UnknownUsn == "USN404"

Ids == StoredUsns \cup {UnknownUsn}

\* a stored identifier as a caller may type it, in lower case
LowerUsn == "usn001"

\* str.upper() of an identifier, as save_user_data applies it before storing
Upper(id) == IF id = LowerUsn THEN "USN001" ELSE id

\* the identifiers passed to the pairwise calculator
CallerIds == Ids \cup {LowerUsn}

Slot(h1, m1, h2, m2) == <<<<h1, m1>>, <<h2, m2>>>>

Entry(day_of_week, slot, is_available) ==
    [day_of_week |-> day_of_week, slot |-> slot, is_available |-> is_available]

\* USN001 of insert_sample_data: mornings and evenings, one slot to avoid
WeekSample ==
    {Entry(d, Slot(8, 0, 10, 0), TRUE) : d \in {1, 2, 3}}
        \cup {Entry(d, Slot(18, 0, 20, 0), TRUE) : d \in {1, 2, 3}}
        \cup {Entry(1, Slot(12, 0, 14, 0), FALSE)}

\* three grid slots on monday, two on tuesday
WeekMornings ==
    {Entry(1, Slot(8, 0, 10, 0), TRUE), Entry(1, Slot(10, 0, 12, 0), TRUE),
     Entry(1, Slot(12, 0, 14, 0), TRUE), Entry(2, Slot(8, 0, 10, 0), TRUE),
     Entry(2, Slot(10, 0, 12, 0), TRUE)}

\* the whole grid on monday and tuesday
WeekFullGrid ==
    {Entry(d, time_slots[i], TRUE) : d \in {1, 2}, i \in DOMAIN time_slots}

\* the whole grid on monday with one custom slot across two grid slots, and
\* one grid slot on tuesday
WeekFullCustom ==
    {Entry(1, time_slots[i], TRUE) : i \in DOMAIN time_slots}
        \cup {Entry(1, Slot(1, 0, 3, 0), TRUE), Entry(2, Slot(8, 0, 10, 0), TRUE)}

\* custom slots only: two slots of the collection form (data_collection.py
\* TIME_SLOTS), a slot across midnight, a zero-length slot, a day number
\* outside 0..6, a slot marked both available and to avoid
WeekCustom ==
    {Entry(1, Slot(9, 0, 12, 0), TRUE), Entry(1, Slot(13, 0, 16, 0), TRUE),
     Entry(1, Slot(23, 0, 1, 0), TRUE),
     Entry(2, Slot(9, 0, 9, 0), TRUE),  Entry(2, Slot(8, 0, 10, 0), TRUE),
     Entry(7, Slot(8, 0, 10, 0), TRUE), Entry(2, Slot(8, 0, 10, 0), FALSE)}

WeekChoices == {WeekSample, WeekMornings, WeekFullGrid, WeekFullCustom, WeekCustom}

RowsFor(usn, week) ==
    {[usn             |-> usn,
      day_of_week     |-> e.day_of_week,
      time_slot_start |-> e.slot[1],
      time_slot_end   |-> e.slot[2],
      is_available    |-> e.is_available] : e \in week}

DbTypes == {"postgresql", "supabase", "sqlalchemy", "none", "other"}

LoadingTypes == {"postgresql", "supabase"}

\* the day names a caller puts in preferred_days; "funday" is no day
MaxScope == 2

ScopeNames == {"monday", "tuesday", "funday"}

RECURSIVE SeqsUpTo(_, _)
SeqsUpTo(S, n) ==
    IF n = 0 THEN {<<>>}
    ELSE LET shorter == SeqsUpTo(S, n - 1)
         IN  shorter \cup {Append(q, x) : q \in shorter, x \in S}

Scopes == {NoneDays} \cup {DayList(list) : list \in SeqsUpTo(ScopeNames, MaxScope)}

\* the days and the four time slots of the data collection form
DAYS_OF_WEEK ==
    <<"Sunday", "Monday", "Tuesday", "Wednesday", "Thursday", "Friday", "Saturday">>

TIME_SLOTS ==
    <<Slot(9, 0, 12, 0), Slot(13, 0, 16, 0), Slot(17, 0, 20, 0), Slot(21, 0, 23, 59)>>

\* an empty availability grid: no slot ticked on any day
create_availability_grid ==
    [day \in Range(DAYS_OF_WEEK) |-> [i \in DOMAIN TIME_SLOTS |-> FALSE]]

\* the form data of a new session, and after "Submit another response"
EmptyFormData ==
    [availability |-> create_availability_grid,
     avoid_times  |-> create_availability_grid,
     skills       |-> <<>>]

\* the session state after the first run of the script
SessionStateInit ==
    [form_submitted |-> FALSE,
     current_step   |-> "personal_info",
     form_data      |-> EmptyFormData]

\* the tables before any request; under a db_type outside fullTypes the
\* availability table is a fixed one
InitData(weeks, fullTypes) ==
    /\ db_type \in DbTypes
    /\ sample_users = SampleUsers
    /\ \E week \in weeks :
          /\ db_type \notin fullTypes => week = [usn \in StoredUsns |-> WeekMornings]
          /\ sample_user_availability =
                UNION {RowsFor(usn, week[usn]) : usn \in StoredUsns}
    /\ call = [op |-> "none"]
    /\ result = [kind |-> "none"]
    /\ matcher = MatcherFields
    /\ session_state = SessionStateInit

\* the tables are read only, and the instance keeps what the operation leaves
TableUnchanged ==
    /\ UNCHANGED <<db_type, sample_users, sample_user_availability>>
    /\ matcher' = FieldsAfterOperation(matcher)
    /\ UNCHANGED session_state

\* no request is being served
Idle == call.op = "none"

\* the caller takes the result; the matcher is ready for the next request
Respond ==
    /\ ~Idle
    /\ call' = [op |-> "none"]
    /\ result' = [kind |-> "none"]
    /\ TableUnchanged

-----------------------------------------------------------------------------
(* Specification of the pairwise calculator                                 *)

\* the third stored user takes no part in a pairwise call
MatchWeeks ==
    {week \in [StoredUsns -> WeekChoices] : week["USN003"] = WeekMornings}

Init == InitData(MatchWeeks, LoadingTypes)

CalculateScheduleMatchPercentage ==
    /\ Idle
    /\ \E user1_id \in CallerIds, user2_id \in CallerIds, preferred_days \in Scopes :
        /\ call' = [op             |-> "calculate_schedule_match_percentage",
                    user1_id       |-> user1_id,
                    user2_id       |-> user2_id,
                    preferred_days |-> preferred_days]
        /\ result' = calculate_schedule_match_percentage(user1_id, user2_id, preferred_days)
        /\ TableUnchanged

Next == CalculateScheduleMatchPercentage \/ Respond

Spec == Init /\ [][Next]_vars

-----------------------------------------------------------------------------
(* get_profile_recommendations                                              *)

\* the value returned by an operation that returns a list
Returned(list) == [kind |-> "ok", list |-> list]

\* the test 'user_id not in users_data' never taken
SubjectFound_unchecked(profiles, user_id) == TRUE

\* the test 'user_id not in users_data', negated
SubjectFound(profiles, user_id) == user_id \in DOMAIN profiles

\* the candidates the loop does not skip, in the order of candidate_ids
Considered(user_id, candidate_ids, profiles) ==
    SelectSeq(candidate_ids,
              LAMBDA candidate_id :
                  ~(candidate_id = user_id \/ candidate_id \notin DOMAIN profiles))

\* the threshold test with '>' in place of '>='
MeetsThreshold_strict(match_percentage, min_match_threshold) ==
    match_percentage > min_match_threshold

\* match_result['match_percentage'] >= min_match_threshold, both in tenths
MeetsThreshold(match_percentage, min_match_threshold) ==
    match_percentage >= min_match_threshold

RecommendationEntry(candidate_id, candidate_data, match_result) ==
    [user_id                 |-> candidate_id,
     name                    |-> candidate_data.name,
     first_name              |-> candidate_data.first_name,
     last_name               |-> candidate_data.last_name,
     schedule_match          |-> match_result,
     recommendation_priority |-> match_result.recommendation_score]

\* the step of a descending sort that puts e in front of the entries of equal
\* priority, so that ties come out in reverse order
RECURSIVE InsertByPriority_before_ties(_, _)
InsertByPriority_before_ties(sorted, e) ==
    IF sorted = <<>> THEN <<e>>
    ELSE IF /\ RatGeq(Head(sorted).recommendation_priority, e.recommendation_priority)
            /\ Head(sorted).recommendation_priority # e.recommendation_priority
    THEN <<Head(sorted)>> \o InsertByPriority_before_ties(Tail(sorted), e)
    ELSE <<e>> \o sorted

\* one step of a stable descending sort: e goes behind every entry of the
\* sorted list whose priority is at least its own
RECURSIVE InsertByPriority(_, _)
InsertByPriority(sorted, e) ==
    IF sorted = <<>> THEN <<e>>
    ELSE IF RatGeq(Head(sorted).recommendation_priority, e.recommendation_priority)
    THEN <<Head(sorted)>> \o InsertByPriority(Tail(sorted), e)
    ELSE <<e>> \o sorted

\* the list left in append order: the sort is missing
SortByPriority_unsorted(recommendations) == recommendations

\* recommendations.sort(key=recommendation_priority, reverse=True)
RECURSIVE SortByPriority(_)
SortByPriority(recommendations) ==
    IF recommendations = <<>> THEN <<>>
    ELSE InsertByPriority(
            SortByPriority(SubSeq(recommendations, 1, Len(recommendations) - 1)),
            recommendations[Len(recommendations)])

\* the match results of the loop, one per considered candidate, in order
RECURSIVE MatchResults(_, _, _)
MatchResults(user_id, considered, preferred_days) ==
    IF considered = <<>> THEN <<>>
    ELSE <<calculate_schedule_match_percentage(user_id, Head(considered), preferred_days)>>
            \o MatchResults(user_id, Tail(considered), preferred_days)

get_profile_recommendations(user_id, candidate_ids, preferred_days, min_match_threshold) ==
    LET users_data == load_user_profiles(<<user_id>> \o candidate_ids)
        profiles   == users_data.profiles
        considered == Considered(user_id, candidate_ids, profiles)
        match_result == MatchResults(user_id, considered, preferred_days)
        \* an iteration that ends the call: the calculator raises, or an error
        \* result that passes the threshold has no recommendation_score
        fails(i) ==
            \/ match_result[i].kind = "raise"
            \/ /\ match_result[i].kind = "error"
               /\ MeetsThreshold(match_result[i].match_percentage, min_match_threshold)
        first_failure == CHOOSE i \in DOMAIN considered :
                            fails(i) /\ \A j \in 1..(i - 1) : ~fails(j)
        kept == SelectSeq([i \in DOMAIN considered |-> i],
                          LAMBDA i : MeetsThreshold(match_result[i].match_percentage,
                                                    min_match_threshold))
        recommendations ==
            [k \in DOMAIN kept |->
                RecommendationEntry(considered[kept[k]], profiles[considered[kept[k]]],
                                    match_result[kept[k]])]
    IN  IF users_data.none
        THEN Raise("TypeError")      \* 'in' applied to None
        ELSE IF ~SubjectFound(profiles, user_id)
        THEN Returned(<<[error |-> "User not found"]>>)
        ELSE IF \E i \in DOMAIN considered : fails(i)
        THEN IF match_result[first_failure].kind = "raise"
             THEN match_result[first_failure]
             ELSE Raise("KeyError")  \* an error result has no recommendation_score
        ELSE Returned(SortByPriority(recommendations))

-----------------------------------------------------------------------------
(* Specification of the overlap predicate on its own                        *)

MaxTimeIdx == 6

\* time strings spread over the day, 00:00 among them
TimeAt(i) == <<(7 * i) % 24, (31 * i) % 60>>

TimePoints == {TimeAt(i) : i \in 0..MaxTimeIdx}

\* every slot over the time points: ordinary, across midnight, zero-length
OverlapSlots == TimePoints \X TimePoints

InitOverlap ==
    /\ db_type = "none"
    /\ sample_users = SampleUsers
    /\ sample_user_availability = {}
    /\ call = [op |-> "none"]
    /\ result = [kind |-> "none"]
    /\ matcher = MatcherFields
    /\ session_state = SessionStateInit

GetOverlappingSlots ==
    /\ Idle
    /\ \E slot1 \in OverlapSlots, slot2 \in OverlapSlots :
        /\ call' = [op |-> "get_overlapping_slots", slot1 |-> slot1, slot2 |-> slot2]
        /\ result' = [kind |-> "ok", value |-> get_overlapping_slots(slot1, slot2)]
        /\ TableUnchanged

NextOverlap == GetOverlappingSlots \/ Respond

SpecOverlap == InitOverlap /\ [][NextOverlap]_vars

-----------------------------------------------------------------------------
(* Properties of the pairwise calculator and of the overlap predicate       *)

IsCalculate == call.op = "calculate_schedule_match_percentage"

IsOverlap == call.op = "get_overlapping_slots"

\* the days the call in progress iterates over
CallScope == IF call.preferred_days.none THEN days ELSE call.preferred_days.list

\* the available set the call in progress reads for a stored user and a day
CallAvailable(usn, day) ==
    load_user_profiles(<<call.user1_id, call.user2_id>>).profiles[usn].schedule[day].available

CrossesMidnight(slot) == time_to_minutes(slot[2]) < time_to_minutes(slot[1])

ZeroLength(slot) == slot[1] = slot[2]

\* C1: for known profiles A and B and any day scope, the calculator called on
\* (A, B) and on (B, A) returns the same match_percentage, common_slots,
\* meeting_potential and recommendation_score.
C1_MatchSymmetric ==
    (IsCalculate /\ result.kind = "ok") =>
        LET swapped == calculate_schedule_match_percentage(
                            call.user2_id, call.user1_id, call.preferred_days)
        IN  /\ swapped.kind = "ok"
            /\ swapped.match_percentage = result.match_percentage
            /\ swapped.common_slots = result.common_slots
            /\ swapped.meeting_potential = result.meeting_potential
            /\ swapped.recommendation_score = result.recommendation_score

\* two different users with different available sets on a day in scope that
\* earns exact and partial credit
C1_Witness ==
    /\ IsCalculate /\ result.kind = "ok"
    /\ call.user1_id # call.user2_id
    /\ \E day \in Range(CallScope) :
          LET a1 == CallAvailable(call.user1_id, day)
              a2 == CallAvailable(call.user2_id, day)
          IN  a1 # a2 /\ ExactCredit2(a1, a2) > 0 /\ PartialCredit2(a1, a2) > 0

\* C2: a known profile whose available set includes the 12 grid slots on every
\* day in scope matches itself with match_percentage exactly 100.0 (stated for
\* a day scope that is not empty).
C2_SelfMatchIs100 ==
    ( /\ IsCalculate /\ result.kind = "ok"
      /\ call.user1_id = call.user2_id
      /\ CallScope # <<>>
      /\ \A day \in Range(CallScope) : GridSlots \subseteq CallAvailable(call.user1_id, day) )
        => result.match_percentage = 1000

\* C3: the match_percentage the calculator returns lies between 0 and 100.
C3_MatchPercentageInRange ==
    (IsCalculate /\ result.kind = "ok") =>
        (0 <= result.match_percentage /\ result.match_percentage <= 1000)

\* C4: get_overlapping_slots(a, b) = get_overlapping_slots(b, a) for all slots,
\* those across midnight and those of zero length included.
C4_OverlapSymmetric ==
    IsOverlap => result.value = get_overlapping_slots(call.slot2, call.slot1)

\* a slot across midnight overlapping a different slot that does not cross it
C4_Witness ==
    /\ IsOverlap /\ result.value
    /\ CrossesMidnight(call.slot1)
    /\ ~CrossesMidnight(call.slot2) /\ ~ZeroLength(call.slot2)

\* C5: a zero-length slot overlaps nothing, itself included.
C5_ZeroLengthNeverOverlaps ==
    (IsOverlap /\ (ZeroLength(call.slot1) \/ ZeroLength(call.slot2))) => ~result.value

\* C6: when the loaded data has no profile for either identifier, the calculator
\* returns an error result with match_percentage 0 and common_slots 0, raises
\* nothing and computes no day breakdown.
C6_UnknownUserIsError ==
    LET users_data == load_user_profiles(<<call.user1_id, call.user2_id>>)
    IN  ( /\ IsCalculate
          /\ ~users_data.none
          /\ \/ call.user1_id \notin DOMAIN users_data.profiles
             \/ call.user2_id \notin DOMAIN users_data.profiles )
            => /\ result.kind = "error"
               /\ result.match_percentage = 0
               /\ result.common_slots = 0
               /\ "day_breakdown" \notin DOMAIN result

\* one stored and one unknown identifier, over a scope that is not empty
C6_Witness ==
    /\ IsCalculate /\ result.kind = "error"
    /\ db_type \in LoadingTypes
    /\ call.user1_id \in StoredUsns /\ call.user2_id = UnknownUsn
    /\ CallScope # <<>>

\* C7: a day scope with a value outside the 7 day names yields a structured
\* error result, never an uncaught failure (stated for two known profiles).
C7_InvalidDayIsStructuredError ==
    LET users_data == load_user_profiles(<<call.user1_id, call.user2_id>>)
    IN  ( /\ IsCalculate
          /\ ~users_data.none
          /\ BothFound(users_data.profiles, call.user1_id, call.user2_id)
          /\ \E i \in DOMAIN CallScope : CallScope[i] \notin DayNames )
            => result.kind = "error"

\* the pairs of different slots, one of each user, that overlap
DistinctOverlaps(a1, a2) ==
    Cardinality({p \in a1 \X a2 : p[1] # p[2] /\ get_overlapping_slots(p[1], p[2])})

\* the credited points of a day counted in half-points, read back from the
\* day_percentage of the result (points / 12 x 100)
CreditedHalfPoints(day) ==
    LET day_percentage == result.day_breakdown[day].day_percentage
    IN  (day_percentage.num * 24) \div (day_percentage.den * 100)

\* C17: for every day in scope the credited points are the number of grid
\* slots in both available sets plus 0.5 for every pair of different
\* overlapping slots, one of each user, and day_percentage is the credited
\* points / 12 x 100, not capped at 100.
C17_DayCreditAndPercentage ==
    (IsCalculate /\ result.kind = "ok") =>
        \A day \in Range(CallScope) :
            LET a1 == CallAvailable(call.user1_id, day)
                a2 == CallAvailable(call.user2_id, day)
                points2 == 2 * Cardinality(GridSlots \cap a1 \cap a2) + DistinctOverlaps(a1, a2)
            IN  result.day_breakdown[day].day_percentage = Rat(points2 * 100, 2 * 12)

\* A with 08:00-10:00 and 18:00-20:00, B with 08:00-10:00 only, on the one
\* day in scope: 1 point, 8.3%
C17_Witness ==
    /\ IsCalculate /\ result.kind = "ok"
    /\ Len(CallScope) = 1
    /\ CallAvailable(call.user1_id, CallScope[1]) = {Slot(8, 0, 10, 0), Slot(18, 0, 20, 0)}
    /\ CallAvailable(call.user2_id, CallScope[1]) = {Slot(8, 0, 10, 0)}
    /\ result.day_breakdown[CallScope[1]].day_percentage = Rat(100, 12)
    /\ result.match_percentage = 83

\* C18: every slot present identically in both available sets of a day earns
\* exact-match credit, 1 point, and no partial-overlap credit: the credit of a
\* day beyond that of its pairs of different overlapping slots is one point
\* for each slot the two sets share.
C18_IdenticalSlotOnePoint ==
    (IsCalculate /\ result.kind = "ok") =>
        \A day \in Range(CallScope) :
            LET a1 == CallAvailable(call.user1_id, day)
                a2 == CallAvailable(call.user2_id, day)
            IN  CreditedHalfPoints(day) - DistinctOverlaps(a1, a2)
                    = 2 * Cardinality(a1 \cap a2)

\* the credited points of a day of the call in progress, in half-points
DayPoints2(day) ==
    LET a1 == CallAvailable(call.user1_id, day)
        a2 == CallAvailable(call.user2_id, day)
    IN  2 * Cardinality(GridSlots \cap a1 \cap a2) + DistinctOverlaps(a1, a2)

\* tenths is x.num / x.den rounded to one decimal: within half a tenth of it
IsRoundedToTenths(tenths, num, den) ==
    LET diff == tenths * den - 10 * num
    IN  2 * (IF diff >= 0 THEN diff ELSE -diff) <= den

\* C19: match_percentage is (sum over the days in scope of the day's credited
\* points) / (number of days in scope x 12) x 100 rounded to one decimal, for
\* every list of days; with an empty scope it is 0 and nothing fails.
C19_OverallPercentage ==
    ( /\ IsCalculate
      /\ BothFound(load_user_profiles(<<call.user1_id, call.user2_id>>).profiles,
                   call.user1_id, call.user2_id)
      /\ ~load_user_profiles(<<call.user1_id, call.user2_id>>).none
      /\ \A i \in DOMAIN CallScope : CallScope[i] \in DayNames )
        => /\ result.kind = "ok"
           /\ IF CallScope = <<>>
              THEN result.match_percentage = 0
              ELSE IsRoundedToTenths(
                      result.match_percentage,
                      SeqSum([i \in DOMAIN CallScope |-> DayPoints2(CallScope[i])]) * 100,
                      2 * 12 * Len(CallScope))

\* two different days with different credited points, half-points among
\* them, and a quotient that rounds upwards
C19_Witness ==
    /\ IsCalculate /\ result.kind = "ok"
    /\ Len(CallScope) = 2
    /\ DayPoints2(CallScope[1]) # DayPoints2(CallScope[2])
    /\ DayPoints2(CallScope[1]) % 2 = 1
    /\ result.match_percentage * (2 * 12 * 2)
            > 10 * (DayPoints2(CallScope[1]) + DayPoints2(CallScope[2])) * 100

\* the days of the week that are in the scope of the call, each once
ScopeDays == SelectSeq(days, LAMBDA day : day \in Range(CallScope))

\* 5 x the score of a day in half-points: the day's points with the factor
\* 1.2 when they are 3 or more
DayScore10(day) ==
    IF DayPoints2(day) >= 2 * 3 THEN 6 * DayPoints2(day) ELSE 5 * DayPoints2(day)

C16_IdentifiersCaseInsensitive ==
    IsCalculate =>
        result = calculate_schedule_match_percentage(
                    Upper(call.user1_id), Upper(call.user2_id), call.preferred_days)

\* C21: in every result of the calculator, recommendation_score equals
\* 0.6 x match_percentage + 0.4 x meeting_potential, with match_percentage and
\* meeting_potential the values reported in that same result.
C21_ScoreFromReportedValues ==
    (IsCalculate /\ result.kind = "ok") =>
        result.recommendation_score =
            RatAdd(RatMul(Rat(result.match_percentage, 10), Rat(6, 10)),
                   RatMul(result.meeting_potential, Rat(4, 10)))

\* C22: the common_slots reported, overall and per day, is the raw total of
\* credited points, fractional when half-points were awarded: twice the
\* reported count is the number of credited half-points.
C22_CommonSlotsRaw ==
    (IsCalculate /\ result.kind = "ok") =>
        /\ 2 * result.common_slots =
              SeqSum([i \in DOMAIN CallScope |-> DayPoints2(CallScope[i])])
        /\ \A day \in Range(CallScope) :
              2 * result.day_breakdown[day].common_slots = DayPoints2(day)

\* the slot ends at or before its start on the clock: it crosses midnight
EndsNotAfterStart(slot) == time_to_minutes(slot[2]) <= time_to_minutes(slot[1])

\* slot w crosses midnight and slot s, which does not, ends at or before the
\* start of w
EndsBeforeCrossing(s, w) ==
    /\ EndsNotAfterStart(w)
    /\ ~EndsNotAfterStart(s)
    /\ time_to_minutes(s[2]) <= time_to_minutes(w[1])

\* C28: the overlap test compares on one unrolled time axis and does not wrap
\* back to the start of the day: for a slot w that crosses midnight and a slot
\* s that does not and ends at or before the start of w, the result is false,
\* whichever is given first.
C28_NoWrapAroundMidnight ==
    ( /\ IsOverlap
      /\ \/ EndsBeforeCrossing(call.slot2, call.slot1)
         \/ EndsBeforeCrossing(call.slot1, call.slot2) )
        => ~result.value

\* a slot across midnight and a slot that starts before the first one ends
\* on the clock, so that both cover time after midnight, found not to overlap
C28_Witness ==
    /\ IsOverlap /\ ~result.value
    /\ EndsBeforeCrossing(call.slot2, call.slot1)
    /\ CrossesMidnight(call.slot1)
    /\ time_to_minutes(call.slot2[1]) < time_to_minutes(call.slot1[2])

-----------------------------------------------------------------------------
(* Specification of the recommendation ranker                               *)

MaxCandidates == 2

CandidateLists == SeqsUpTo(Ids, MaxCandidates)

\* preferred_days of a ranking request: the default, one day, two days, no
\* day, a name that is no day
RecScopes ==
    {NoneDays, DayList(<<"monday">>), DayList(<<"monday", "tuesday">>),
     DayList(<<>>), DayList(<<"funday">>)}

\* min_match_threshold in tenths: the default 20.0, and 25.0
Thresholds == {200, 250}

\* the first two stored users have the mornings or the full grid, and the
\* second one may have the sample week instead; the third has the mornings
RecWeeks ==
    {week \in [StoredUsns -> {WeekSample, WeekMornings, WeekFullCustom}] :
        /\ \A usn \in StoredUsns : week[usn] = WeekSample => usn = "USN002"
        /\ week["USN003"] = WeekMornings}

InitRecs == InitData(RecWeeks, {"postgresql"})

GetProfileRecommendations ==
    /\ Idle
    /\ \E user_id \in Ids, candidate_ids \in CandidateLists,
          preferred_days \in RecScopes, min_match_threshold \in Thresholds :
        /\ call' = [op                  |-> "get_profile_recommendations",
                    user_id             |-> user_id,
                    candidate_ids       |-> candidate_ids,
                    preferred_days      |-> preferred_days,
                    min_match_threshold |-> min_match_threshold]
        /\ result' = get_profile_recommendations(
                        user_id, candidate_ids, preferred_days, min_match_threshold)
        /\ TableUnchanged

NextRecs == GetProfileRecommendations \/ Respond

SpecRecs == InitRecs /\ [][NextRecs]_vars

-----------------------------------------------------------------------------
(* Properties of the recommendation ranker                                  *)

IsRecommendations == call.op = "get_profile_recommendations"

\* the profiles the ranking call in progress loads
CallProfiles == load_user_profiles(<<call.user_id>> \o call.candidate_ids)

\* the call in progress returned a list of candidate entries
ReturnedCandidates ==
    /\ IsRecommendations /\ result.kind = "ok"
    /\ ~CallProfiles.none
    /\ call.user_id \in DOMAIN CallProfiles.profiles

\* C8: the returned list is sorted non-increasing by recommendation score:
\* of two consecutive entries the earlier has a recommendation_priority at
\* least that of the later.
C8_SortedByScore ==
    ReturnedCandidates =>
        \A i \in 1..(Len(result.list) - 1) :
            RatGeq(result.list[i].recommendation_priority,
                   result.list[i + 1].recommendation_priority)

\* two candidates given in ascending order of score and returned in the other
C8_Witness ==
    /\ ReturnedCandidates
    /\ Len(result.list) = 2 /\ Len(call.candidate_ids) = 2
    /\ result.list[1].user_id = call.candidate_ids[2]
    /\ result.list[2].user_id = call.candidate_ids[1]
    /\ ~RatGeq(result.list[2].recommendation_priority,
               result.list[1].recommendation_priority)

\* C9: a candidate is in the returned list if and only if it is not the
\* subject, has a profile and matches the subject with a match percentage of
\* at least min_match_threshold; no entry below the threshold is returned.
C9_RetainedIffAboveThreshold ==
    ReturnedCandidates =>
        /\ \A candidate_id \in Ids :
              (\E i \in DOMAIN result.list : result.list[i].user_id = candidate_id)
                <=> /\ candidate_id \in Range(call.candidate_ids)
                    /\ candidate_id # call.user_id
                    /\ candidate_id \in DOMAIN CallProfiles.profiles
                    /\ calculate_schedule_match_percentage(
                            call.user_id, candidate_id, call.preferred_days
                       ).match_percentage >= call.min_match_threshold
        /\ \A i \in DOMAIN result.list :
              result.list[i].schedule_match.match_percentage >= call.min_match_threshold

\* of two known candidates one is kept with a match percentage equal to the
\* threshold and the other is dropped for being below it
C9_Witness ==
    /\ ReturnedCandidates
    /\ Len(result.list) = 1
    /\ result.list[1].schedule_match.match_percentage = call.min_match_threshold
    /\ \E candidate_id \in Range(call.candidate_ids) :
          /\ candidate_id \in StoredUsns \ {call.user_id}
          /\ \A i \in DOMAIN result.list : result.list[i].user_id # candidate_id

\* C10: when the subject has no profile the result is a list of exactly one
\* entry, an error entry, whatever the candidate list is.
C10_UnknownSubjectSingleError ==
    ( /\ IsRecommendations
      /\ ~CallProfiles.none
      /\ call.user_id \notin DOMAIN CallProfiles.profiles )
        => /\ result.kind = "ok"
           /\ Len(result.list) = 1
           /\ result.list[1] = [error |-> "User not found"]

\* an unknown subject with two stored candidates, the tables being loaded
C10_Witness ==
    /\ IsRecommendations /\ result.kind = "ok"
    /\ db_type \in LoadingTypes
    /\ call.user_id = UnknownUsn
    /\ Len(call.candidate_ids) = 2
    /\ Range(call.candidate_ids) \subseteq StoredUsns
    /\ "error" \in DOMAIN result.list[1]

\* the user_ids of a list of entries
UserIds(list) == [i \in DOMAIN list |-> list[i].user_id]

\* the candidates of the call in progress that are retained with the given
\* recommendation score, in the order of candidate_ids
RetainedWithScore(score) ==
    SelectSeq(call.candidate_ids,
              LAMBDA candidate_id :
                  /\ candidate_id # call.user_id
                  /\ candidate_id \in DOMAIN CallProfiles.profiles
                  /\ LET match_result == calculate_schedule_match_percentage(
                                            call.user_id, candidate_id, call.preferred_days)
                     IN  /\ match_result.match_percentage >= call.min_match_threshold
                         /\ match_result.recommendation_score = score)

\* C24: retained candidates of equal recommendation score appear in the
\* output in the same relative order as in the input candidate list: for
\* every score, the returned entries of that score are the retained
\* candidates of that score in input order.
C24_TiesKeepInputOrder ==
    ReturnedCandidates =>
        \A i \in DOMAIN result.list :
            LET score == result.list[i].recommendation_priority
            IN  UserIds(SelectSeq(result.list,
                                  LAMBDA entry : entry.recommendation_priority = score))
                    = RetainedWithScore(score)

\* two different candidates of equal score, given and returned with the one
\* of the later identifier first
C24_Witness ==
    /\ ReturnedCandidates
    /\ Len(result.list) = 2
    /\ call.candidate_ids = <<"USN003", "USN001">>
    /\ UserIds(result.list) = <<"USN003", "USN001">>
    /\ result.list[1].recommendation_priority = result.list[2].recommendation_priority
    /\ result.list[1].recommendation_priority # Rat(0, 1)

-----------------------------------------------------------------------------
(* find_team_meeting_slots                                                  *)

\* str.capitalize() of a day name
Capitalize(day) ==
    CASE day = "sunday"    -> "Sunday"
      [] day = "monday"    -> "Monday"
      [] day = "tuesday"   -> "Tuesday"
      [] day = "wednesday" -> "Wednesday"
      [] day = "thursday"  -> "Thursday"
      [] day = "friday"    -> "Friday"
      [] day = "saturday"  -> "Saturday"
      [] OTHER             -> day

\* time_slot_to_string: f"{start} - {end}"
time_slot_to_string(time_slot) == <<time_slot[1], " - ", time_slot[2]>>

Min(a, b) == IF a <= b THEN a ELSE b

\* the slice list[:n] for n >= 0
Take(list, n) == SubSeq(list, 1, Min(n, Len(list)))

\* is_available: the exact slot is in the member's available set, or some slot
\* of the set overlaps it
IsAvailable(member_schedule, time_slot) ==
    \/ time_slot \in member_schedule
    \/ \E member_slot \in member_schedule : get_overlapping_slots(time_slot, member_slot)

\* availability_percentage == 100, for available of total members
IsPerfect(available, total) == available * 100 = 100 * total

\* the test of the good bucket with 60 in place of 80
IsGood_sixty(available, total) ==
    ~IsPerfect(available, total) /\ available * 100 >= 60 * total

\* elif availability_percentage >= 80
IsGood(available, total) ==
    ~IsPerfect(available, total) /\ available * 100 >= 80 * total

\* elif availability_percentage >= 50
IsBackup(available, total) ==
    /\ ~IsPerfect(available, total) /\ ~IsGood(available, total)
    /\ available * 100 >= 50 * total

\* len() of a bucket cut to its first 10 entries
TotalCount_truncated(slots) == Min(Len(slots), 10)

\* total_perfect, total_good, total_backup: len() of the whole bucket
TotalCount(slots) == Len(slots)

\* the ladder with 'good >= 2' on its third rung
get_meeting_recommendation_two_good(perfect, good, backup) ==
    IF perfect >= 5 THEN "Excellent - Multiple perfect meeting times available"
    ELSE IF perfect >= 2 THEN "Good - Several perfect meeting times available"
    ELSE IF perfect >= 1 \/ good >= 2 THEN "Fair - Some good meeting opportunities"
    ELSE IF good >= 1 \/ backup >= 3 THEN "Challenging - Limited meeting opportunities"
    ELSE "Difficult - Very few meeting opportunities"

\* _get_meeting_recommendation
get_meeting_recommendation(perfect, good, backup) ==
    IF perfect >= 5 THEN "Excellent - Multiple perfect meeting times available"
    ELSE IF perfect >= 2 THEN "Good - Several perfect meeting times available"
    ELSE IF perfect >= 1 \/ good >= 3 THEN "Fair - Some good meeting opportunities"
    ELSE IF good >= 1 \/ backup >= 3 THEN "Challenging - Limited meeting opportunities"
    ELSE "Difficult - Very few meeting opportunities"

\* the team size test made after the profiles are loaded and looked up
TooFewMembers_after_load(team_member_ids, users_data) ==
    /\ ~users_data.none
    /\ \A i \in DOMAIN team_member_ids : team_member_ids[i] \in DOMAIN users_data.profiles
    /\ Len(team_member_ids) < 2

\* if len(team_member_ids) < 2, the first statement of the method
TooFewMembers(team_member_ids, users_data) == Len(team_member_ids) < 2

\* the (day, time_slot) pairs in the order the two outer loops visit them
ScanOrder(scope) ==
    [k \in 1..(Len(scope) * Len(time_slots)) |->
        [day       |-> scope[((k - 1) \div Len(time_slots)) + 1],
         time_slot |-> time_slots[((k - 1) % Len(time_slots)) + 1]]]

\* slot_info of one visited slot
SlotInfo(team_member_ids, profiles, day, time_slot) ==
    LET is_available(member_id) ==
            IsAvailable(profiles[member_id].schedule[day].available, time_slot)
        available_members == SelectSeq(team_member_ids, is_available)
        unavailable       == SelectSeq(team_member_ids,
                                       LAMBDA uid : uid \notin Range(available_members))
    IN  [day                      |-> Capitalize(day),
         time_slot                |-> time_slot_to_string(time_slot),
         start_time               |-> time_slot[1],
         end_time                 |-> time_slot[2],
         availability_percentage  |->
             Round1(Rat(Len(available_members) * 100, Len(team_member_ids))),
         available_members        |-> Len(available_members),
         total_members            |-> Len(team_member_ids),
         available_member_names   |->
             [i \in DOMAIN available_members |-> profiles[available_members[i]].name],
         unavailable_member_names |->
             [i \in DOMAIN unavailable |-> profiles[unavailable[i]].name]]

find_team_meeting_slots(team_member_ids, preferred_days) ==
    LET users_data == load_user_profiles(team_member_ids)
        profiles   == users_data.profiles
        missing_users == SelectSeq(team_member_ids, LAMBDA uid : uid \notin DOMAIN profiles)
        scope      == IF preferred_days.none THEN days ELSE preferred_days.list
        scan       == ScanOrder(scope)
        slot_info  == [k \in DOMAIN scan |->
                          SlotInfo(team_member_ids, profiles, scan[k].day, scan[k].time_slot)]
        perfect(k) == IsPerfect(slot_info[k].available_members, slot_info[k].total_members)
        good(k)    == IsGood(slot_info[k].available_members, slot_info[k].total_members)
        backup(k)  == IsBackup(slot_info[k].available_members, slot_info[k].total_members)
        visited    == [k \in DOMAIN scan |-> k]
        bucket(in(_)) == LET ks == SelectSeq(visited, in)
                         IN  [i \in DOMAIN ks |-> slot_info[ks[i]]]
        perfect_slots == bucket(perfect)
        good_slots    == bucket(good)
        backup_slots  == bucket(backup)
        of_day(day)   == {k \in DOMAIN scan : scan[k].day = day}
        \* a day named twice is scanned twice; its entry holds the counts of one scan
        per_scan(day) == Cardinality({i \in DOMAIN scope : scope[i] = day})
        day_statistics ==
            [day \in Range(scope) |->
                LET day_perfect == Cardinality({k \in of_day(day) : perfect(k)}) \div per_scan(day)
                    day_good    == Cardinality({k \in of_day(day) : good(k)}) \div per_scan(day)
                    day_backup  == Cardinality({k \in of_day(day) : backup(k)}) \div per_scan(day)
                IN  [perfect_slots      |-> day_perfect,
                     good_slots         |-> day_good,
                     backup_slots       |-> day_backup,
                     total_viable_slots |-> day_perfect + day_good + day_backup]]
        total_perfect == TotalCount(perfect_slots)
        total_good    == TotalCount(good_slots)
        total_backup  == TotalCount(backup_slots)
        total_checked == Len(scope) * Len(time_slots)
        success_rate  == IF total_checked > 0
                         THEN Rat((total_perfect + total_good) * 100, total_checked)
                         ELSE Rat(0, 1)
    IN  IF TooFewMembers(team_member_ids, users_data)
        THEN [kind |-> "error", error |-> "Need at least 2 team members"]
        ELSE IF users_data.none
        THEN Raise("TypeError")      \* 'in' applied to None
        ELSE IF missing_users # <<>>
        THEN [kind |-> "error", error |-> <<"Users not found: ", missing_users>>]
        ELSE IF \E i \in DOMAIN scope : scope[i] \notin DayNames
        THEN Raise("KeyError")       \* schedule[day] has no such key
        ELSE [kind          |-> "ok",
              team_info     |->
                  [member_ids   |-> team_member_ids,
                   member_names |-> [i \in DOMAIN team_member_ids |->
                                        profiles[team_member_ids[i]].name],
                   team_size    |-> Len(team_member_ids)],
              perfect_slots |-> Take(perfect_slots, 10),
              good_slots    |-> Take(good_slots, 10),
              backup_slots  |-> Take(backup_slots, 5),
              statistics    |->
                  [total_perfect_slots |-> total_perfect,
                   total_good_slots    |-> total_good,
                   total_backup_slots  |-> total_backup,
                   success_rate        |-> Round1(success_rate),
                   day_breakdown       |-> day_statistics,
                   recommendation      |->
                       get_meeting_recommendation(total_perfect, total_good, total_backup)]]

-----------------------------------------------------------------------------
(* Specification of the team meeting slot finder                            *)

\* the five rows of sample_users (insert_sample_data), in insertion order
TeamUsnOrder == <<"USN001", "USN002", "USN003", "USN004", "USN005">>

TeamUsers ==
    SampleUsers \cup
        {[usn |-> "USN004", first_name |-> "Sarah", last_name |-> "Wilson"],
         [usn |-> "USN005", first_name |-> "David", last_name |-> "Brown"]}

TeamUsns == {user.usn : user \in TeamUsers}

TeamIds == TeamUsns \cup {UnknownUsn}

\* the identifiers of the lists that may name one twice or name an unknown one
FreeIds == {"USN001", "USN005", UnknownUsn}

MaxTeamList == 2

\* team_member_ids: every list of at most MaxTeamList identifiers of FreeIds
\* (the empty list, a single member, a member twice, an unknown one), and
\* every set of stored users in the order of the table
TeamLists ==
    SeqsUpTo(FreeIds, MaxTeamList) \cup
        {SelectSeq(TeamUsnOrder, LAMBDA usn : usn \in members) : members \in SUBSET TeamUsns}

\* preferred_days of a team request: the default, no day, one day, two days,
\* a day twice, a name that is no day alone and after a day
TeamScopes ==
    {NoneDays, DayList(<<>>), DayList(<<"monday">>), DayList(<<"tuesday">>),
     DayList(<<"monday", "tuesday">>), DayList(<<"monday", "monday">>),
     DayList(<<"funday">>), DayList(<<"monday", "funday">>)}

\* four users with the whole grid on monday and tuesday, one with the mornings
TeamWeekGrid ==
    [usn \in TeamUsns |-> IF usn = "USN005" THEN WeekMornings ELSE WeekFullGrid]

\* USN002 of insert_sample_data: afternoons from tuesday to thursday, one slot
\* to avoid
WeekAfternoons ==
    {Entry(d, Slot(12, 0, 14, 0), TRUE) : d \in {2, 3, 4}}
        \cup {Entry(d, Slot(14, 0, 16, 0), TRUE) : d \in {2, 3, 4}}
        \cup {Entry(2, Slot(8, 0, 10, 0), FALSE)}

\* one user with the whole grid, the others with fewer and with custom slots
TeamWeekMixed ==
    [usn \in TeamUsns |->
        CASE usn = "USN001" -> WeekFullGrid
          [] usn = "USN002" -> WeekSample
          [] usn = "USN003" -> WeekMornings
          [] usn = "USN004" -> WeekCustom
          [] OTHER          -> WeekAfternoons]

TeamWeeks == {TeamWeekGrid, TeamWeekMixed}

InitTeam ==
    /\ db_type \in DbTypes
    /\ sample_users = TeamUsers
    /\ \E week \in TeamWeeks :
          /\ db_type # "postgresql" => week = TeamWeekGrid
          /\ sample_user_availability =
                UNION {RowsFor(usn, week[usn]) : usn \in TeamUsns}
    /\ call = [op |-> "none"]
    /\ result = [kind |-> "none"]
    /\ matcher = MatcherFields
    /\ session_state = SessionStateInit

FindTeamMeetingSlots ==
    /\ Idle
    /\ \E team_member_ids \in TeamLists, preferred_days \in TeamScopes :
        /\ call' = [op              |-> "find_team_meeting_slots",
                    team_member_ids |-> team_member_ids,
                    preferred_days  |-> preferred_days]
        /\ result' = find_team_meeting_slots(team_member_ids, preferred_days)
        /\ TableUnchanged

NextTeam == FindTeamMeetingSlots \/ Respond

SpecTeam == InitTeam /\ [][NextTeam]_vars

-----------------------------------------------------------------------------
(* Properties of the team meeting slot finder                               *)

IsTeam == call.op = "find_team_meeting_slots"

\* the days the team call in progress scans
TeamScope == IF call.preferred_days.none THEN days ELSE call.preferred_days.list

\* the team call in progress scanned its days and returned a report
TeamReported == IsTeam /\ result.kind = "ok"

\* the number of members of the team with an available entry equal to the slot
\* or overlapping it on the day
Attending(day, time_slot) ==
    LET profiles == load_user_profiles(call.team_member_ids).profiles
    IN  Cardinality({i \in DOMAIN call.team_member_ids :
            \E s \in profiles[call.team_member_ids[i]].schedule[day].available :
                s = time_slot \/ get_overlapping_slots(time_slot, s)})

\* the bucket of an attendance of n members out of the team, "none" below 50%
AttendanceBucket(n) ==
    LET size == Len(call.team_member_ids)
    IN  CASE n * 100 = 100 * size                        -> "perfect"
          [] 80 * size <= n * 100 /\ n * 100 < 100 * size -> "good"
          [] 50 * size <= n * 100 /\ n * 100 < 80 * size  -> "backup"
          [] OTHER                                        -> "none"

\* the bucket of every grid slot of every scanned day, by position in the
\* scope and position in the grid
ScannedBuckets ==
    LET profiles == load_user_profiles(call.team_member_ids).profiles
        attending(day, time_slot) ==
            Cardinality({i \in DOMAIN call.team_member_ids :
                \E s \in profiles[call.team_member_ids[i]].schedule[day].available :
                    s = time_slot \/ get_overlapping_slots(time_slot, s)})
        RECURSIVE row(_, _)
        row(day, j) ==
            IF j > Len(time_slots) THEN <<>>
            ELSE <<AttendanceBucket(attending(day, time_slots[j]))>> \o row(day, j + 1)
        RECURSIVE rows(_)
        rows(i) == IF i > Len(TeamScope) THEN <<>>
                   ELSE <<row(TeamScope[i], 1)>> \o rows(i + 1)
    IN  rows(1)

\* the scanned slots that fall in a bucket, in scan order, each as
\* <<position in the scope, position in the grid>>
SlotsInBucket(buckets, bucket) ==
    LET visits == [k \in 1..(Len(TeamScope) * 12) |->
                      <<((k - 1) \div 12) + 1, ((k - 1) % 12) + 1>>]
    IN  SelectSeq(visits, LAMBDA v : buckets[v[1]][v[2]] = bucket)

\* a returned bucket list holds exactly the first cap slots of the bucket
ListsBucket(list, slots, cap) ==
    /\ Len(list) = (IF Len(slots) < cap THEN Len(slots) ELSE cap)
    /\ \A i \in DOMAIN list :
          /\ list[i].day = Capitalize(TeamScope[slots[i][1]])
          /\ list[i].start_time = time_slots[slots[i][2]][1]
          /\ list[i].end_time = time_slots[slots[i][2]][2]
          /\ list[i].available_members =
                Attending(TeamScope[slots[i][1]], time_slots[slots[i][2]])

\* the number of grid slots of the i-th scanned day that fall in a bucket
DayCount(buckets, i, bucket) ==
    Cardinality({j \in DOMAIN time_slots : buckets[i][j] = bucket})

\* C12: with fewer than 2 identifiers the finder returns the explicit error
\* of a team too small, loads no profile and returns no bucket and no
\* statistics.
C12_TooFewMembersIsError ==
    (IsTeam /\ Len(call.team_member_ids) < 2) =>
        /\ result.kind = "error"
        /\ result.error = "Need at least 2 team members"
        /\ DOMAIN result = {"kind", "error"}

\* a team of one under a configuration whose load returns nothing usable:
\* the error is returned before any profile is loaded
C12_Witness ==
    /\ IsTeam /\ Len(call.team_member_ids) = 1
    /\ db_type = "other"
    /\ result.kind = "error"

\* C13: a grid slot of a scanned day is recorded as perfect iff its attendance
\* is 100%, as good iff it is in [80, 100), as backup iff it is in [50, 80),
\* and in no bucket below 50%; 2 of 3 members is backup.
C13_BucketsByAttendance ==
    TeamReported =>
        LET buckets == ScannedBuckets
        IN  /\ ListsBucket(result.perfect_slots, SlotsInBucket(buckets, "perfect"), 10)
            /\ ListsBucket(result.good_slots, SlotsInBucket(buckets, "good"), 10)
            /\ ListsBucket(result.backup_slots, SlotsInBucket(buckets, "backup"), 5)
            /\ \A i \in DOMAIN TeamScope :
                  LET day_statistics == result.statistics.day_breakdown[TeamScope[i]]
                  IN  /\ day_statistics.perfect_slots = DayCount(buckets, i, "perfect")
                      /\ day_statistics.good_slots = DayCount(buckets, i, "good")
                      /\ day_statistics.backup_slots = DayCount(buckets, i, "backup")
                      /\ day_statistics.total_viable_slots =
                            12 - DayCount(buckets, i, "none")

\* a team of three with a slot that two members attend, reported as backup at
\* 66.7%, and some slot that only one attends
C13_Witness ==
    /\ TeamReported
    /\ Len(call.team_member_ids) = 3
    /\ \E i \in DOMAIN result.backup_slots :
          /\ result.backup_slots[i].available_members = 2
          /\ result.backup_slots[i].availability_percentage = 667
    /\ \E day \in Range(TeamScope), j \in DOMAIN time_slots :
          Attending(day, time_slots[j]) = 1

\* C14: the totals of the statistics block are the numbers of slots classified
\* in each bucket over the whole scan, also when the returned lists are cut
\* to 10, 10 and 5 entries.
C14_TotalsBeforeTruncation ==
    TeamReported =>
        LET buckets == ScannedBuckets
        IN  /\ result.statistics.total_perfect_slots = Len(SlotsInBucket(buckets, "perfect"))
            /\ result.statistics.total_good_slots = Len(SlotsInBucket(buckets, "good"))
            /\ result.statistics.total_backup_slots = Len(SlotsInBucket(buckets, "backup"))

\* more than 10 good slots classified, 10 of them returned
C14_Witness ==
    /\ TeamReported
    /\ result.statistics.total_good_slots > 10
    /\ Len(result.good_slots) = 10

\* the sum of a count over the entries of day_breakdown
RECURSIVE SumOverDays(_, _, _)
SumOverDays(day_breakdown, keys, count) ==
    IF keys = {} THEN 0
    ELSE LET day == CHOOSE d \in keys : TRUE
         IN  day_breakdown[day][count] + SumOverDays(day_breakdown, keys \ {day}, count)

\* C25: for every day-scope list the per-day counts of
\* statistics.day_breakdown agree with the aggregate counts: for each bucket
\* the counts of the days add up to the total of the bucket, and the
\* total_viable_slots of a day is its perfect + good + backup.
C25_DayCountsAddUpToTotals ==
    TeamReported =>
        LET statistics    == result.statistics
            day_breakdown == statistics.day_breakdown
            keys          == DOMAIN day_breakdown
        IN  /\ SumOverDays(day_breakdown, keys, "perfect_slots") = statistics.total_perfect_slots
            /\ SumOverDays(day_breakdown, keys, "good_slots") = statistics.total_good_slots
            /\ SumOverDays(day_breakdown, keys, "backup_slots") = statistics.total_backup_slots
            /\ \A day \in keys :
                  day_breakdown[day].total_viable_slots =
                      day_breakdown[day].perfect_slots + day_breakdown[day].good_slots
                          + day_breakdown[day].backup_slots

-----------------------------------------------------------------------------
(* Specification of the categorical recommendation on its own               *)

MaxSlotCount == 6

SlotCounts == 0..MaxSlotCount

InitLadder ==
    /\ db_type = "none"
    /\ sample_users = SampleUsers
    /\ sample_user_availability = {}
    /\ call = [op |-> "none"]
    /\ result = [kind |-> "none"]
    /\ matcher = MatcherFields
    /\ session_state = SessionStateInit

GetMeetingRecommendation ==
    /\ Idle
    /\ \E perfect \in SlotCounts, good \in SlotCounts, backup \in SlotCounts :
        /\ call' = [op      |-> "_get_meeting_recommendation",
                    perfect |-> perfect,
                    good    |-> good,
                    backup  |-> backup]
        /\ result' = [kind  |-> "ok",
                      value |-> get_meeting_recommendation(perfect, good, backup)]
        /\ TableUnchanged

NextLadder == GetMeetingRecommendation \/ Respond

SpecLadder == InitLadder /\ [][NextLadder]_vars

IsLadder == call.op = "_get_meeting_recommendation"

\* the tier a recommendation text opens with
TierOf(text) ==
    CASE text = "Excellent - Multiple perfect meeting times available" -> "Excellent"
      [] text = "Good - Several perfect meeting times available"       -> "Good"
      [] text = "Fair - Some good meeting opportunities"               -> "Fair"
      [] text = "Challenging - Limited meeting opportunities"          -> "Challenging"
      [] text = "Difficult - Very few meeting opportunities"           -> "Difficult"
      [] OTHER                                                         -> "unknown"

\* C15: the recommendation follows the ladder, first match wins: perfect >= 5
\* Excellent; perfect >= 2 Good; perfect >= 1 or good >= 3 Fair; good >= 1 or
\* backup >= 3 Challenging; otherwise Difficult.
C15_RecommendationLadder ==
    IsLadder =>
        TierOf(result.value) =
            CASE call.perfect >= 5                      -> "Excellent"
              [] call.perfect \in 2..4                  -> "Good"
              [] call.perfect = 1                       -> "Fair"
              [] call.perfect = 0 /\ call.good >= 3     -> "Fair"
              [] call.perfect = 0 /\ call.good \in 1..2 -> "Challenging"
              [] call.perfect = 0 /\ call.good = 0 /\ call.backup >= 3
                                                        -> "Challenging"
              [] OTHER                                  -> "Difficult"

\* no perfect slot and two good ones: the fourth rung, by its first condition
C15_Witness ==
    /\ IsLadder
    /\ call.perfect = 0 /\ call.good = 2 /\ call.backup = 0
    /\ TierOf(result.value) = "Challenging"

-----------------------------------------------------------------------------
(* api_get_profile_recommendations                                          *)

\* params.get(key, default); params is a mapping from some of the keys
Get(params, key, default) == IF key \in DOMAIN params THEN params[key] ELSE default

\* the slice list[:n], n of either sign
Slice(list, n) ==
    IF n >= 0 THEN Take(list, n)
    ELSE SubSeq(list, 1, IF Len(list) + n > 0 THEN Len(list) + n ELSE 0)

\* the structure returned for what get_profile_recommendations gave
RecommendationsResponse(recommendations, candidate_ids, limit) ==
    IF recommendations.kind = "raise"
    THEN \* except Exception as e
         [kind |-> "ok", success |-> FALSE, error |-> recommendations.exc]
    ELSE [kind                     |-> "ok",
          success                  |-> TRUE,
          data                     |-> Slice(recommendations.list, limit),
          total_candidates         |-> Len(candidate_ids),
          returned_recommendations |-> Len(Slice(recommendations.list, limit))]

api_get_profile_recommendations(user_id, params) ==
    RecommendationsResponse(
        get_profile_recommendations(user_id,
                                    Get(params, "candidate_ids", <<>>),
                                    Get(params, "preferred_days", DayList(days)),
                                    Get(params, "min_match_threshold", 200)),
        Get(params, "candidate_ids", <<>>),
        Get(params, "limit", 10))

-----------------------------------------------------------------------------
(* Specification of the recommendations endpoint                            *)

\* a key of params left out
Absent == <<>>

\* the params of a request: each key present or left out
ApiParams ==
    {candidate_ids @@ preferred_days @@ min_match_threshold @@ limit :
        candidate_ids \in
            {Absent} \cup {[candidate_ids |-> list] : list \in CandidateLists},
        preferred_days \in
            {Absent, [preferred_days |-> DayList(<<"monday">>)],
             [preferred_days |-> DayList(<<"funday">>)]},
        min_match_threshold \in {Absent, [min_match_threshold |-> 250]},
        limit \in {Absent, [limit |-> 1], [limit |-> -1]}}

\* a full grid with a custom slot for the first user, the mornings for the others
ApiWeeks ==
    {[usn \in StoredUsns |-> IF usn = "USN001" THEN WeekFullCustom ELSE WeekMornings]}

\* the endpoint over a back end that loads the tables, or one of a type that
\* load_user_profiles has no branch for
InitApi == InitData(ApiWeeks, DbTypes) /\ db_type \in LoadingTypes \cup {"other"}

ApiGetProfileRecommendations ==
    /\ Idle
    /\ \E user_id \in Ids, params \in ApiParams :
        /\ call' = [op      |-> "api_get_profile_recommendations",
                    user_id |-> user_id,
                    params  |-> params]
        /\ result' = api_get_profile_recommendations(user_id, params)
        /\ TableUnchanged

NextApi == ApiGetProfileRecommendations \/ Respond

SpecApi == InitApi /\ [][NextApi]_vars

IsApiRecommendations == call.op = "api_get_profile_recommendations"

\* C11: when the subject of api_get_profile_recommendations has no profile,
\* the returned structure has success false together with the error detail.
C11_NotFoundClearsSuccess ==
    LET users_data ==
            load_user_profiles(<<call.user_id>> \o Get(call.params, "candidate_ids", <<>>))
    IN  ( /\ IsApiRecommendations
          /\ ~users_data.none
          /\ call.user_id \notin DOMAIN users_data.profiles )
            => /\ result.success = FALSE
               /\ "error" \in DOMAIN result

-----------------------------------------------------------------------------
(* The availability loop of the loaders, row by row                         *)

\* the tuple the loop adds: _load_from_postgresql formats the stored times,
\* _load_from_supabase takes them as they come
TimeSlotOf(avail, formatted) ==
    IF formatted
    THEN <<strftime_HM(avail.time_slot_start), strftime_HM(avail.time_slot_end)>>
    ELSE <<avail.time_slot_start, avail.time_slot_end>>

\* schedule[day] of one user after the loop has processed the rows in the
\* order they arrived: add to available and valid, or add to avoid and
\* discard from valid
RECURSIVE ProcessAvailability(_, _, _, _)
ProcessAvailability(rows, usn, day, formatted) ==
    IF rows = <<>>
    THEN [available |-> {}, avoid |-> {}, valid |-> {}]
    ELSE LET before    == ProcessAvailability(
                              SubSeq(rows, 1, Len(rows) - 1), usn, day, formatted)
             avail     == rows[Len(rows)]
             time_slot == TimeSlotOf(avail, formatted)
         IN  IF /\ avail.usn = usn
                /\ 0 <= avail.day_of_week /\ avail.day_of_week <= 6
                /\ days[avail.day_of_week + 1] = day
             THEN IF avail.is_available
                  THEN [before EXCEPT !.available = @ \cup {time_slot},
                                      !.valid     = @ \cup {time_slot}]
                  ELSE [before EXCEPT !.avoid = @ \cup {time_slot},
                                      !.valid = @ \ {time_slot}]
             ELSE before

\* the schedules load_user_profiles builds when the availability rows arrive
\* in the given order
LoadSchedules(user_ids, arrival) ==
    CASE db_type \in LoadingTypes ->
            [kind      |-> "ok",
             schedules |->
                [usn \in {user.usn : user \in SelectedUsers(user_ids)} |->
                    [day \in DayNames |->
                        ProcessAvailability(arrival, usn, day, db_type = "postgresql")]]]
      \* the failure of the back end is caught and {} returned
      [] db_type \in {"sqlalchemy", "none"} ->
            [kind |-> "ok", schedules |-> [usn \in {} |-> <<>>]]
      \* no branch for the type: None
      [] OTHER -> [kind |-> "none_returned"]

-----------------------------------------------------------------------------
(* Specification of the profile loader                                      *)

\* the most rows the availability table holds
MaxRows == 3

\* a stored time of day with its seconds
Time(h, m, sec) == <<h, m, sec>>

LoadRow(usn, day_of_week, time_slot_start, is_available) ==
    [usn             |-> usn,
     day_of_week     |-> day_of_week,
     time_slot_start |-> time_slot_start,
     time_slot_end   |-> Time(10, 0, 0),
     is_available    |-> is_available]

\* rows the table may hold: a slot to avoid and available, the same slot
\* available from half a minute later, another day, another user, a day
\* number outside 0..6
LoadRows ==
    {LoadRow("USN001", 1, Time(8, 0, 0), FALSE),
     LoadRow("USN001", 1, Time(8, 0, 0), TRUE),
     LoadRow("USN001", 1, Time(8, 0, 30), TRUE),
     LoadRow("USN001", 2, Time(8, 0, 0), FALSE),
     LoadRow("USN002", 1, Time(8, 0, 0), TRUE),
     LoadRow("USN001", 7, Time(8, 0, 0), TRUE)}

LoadTables == {rows \in SUBSET LoadRows : Cardinality(rows) <= MaxRows}

\* the position of a usn in the collation of ORDER BY usn
UsnRank(usn) == CHOOSE i \in 1..3 : <<"USN001", "USN002", "USN003">>[i] = usn

\* a stored time of day as the database compares it
SecondsOf(t) == t[1] * 3600 + t[2] * 60 + t[3]

\* ORDER BY usn, day_of_week, time_slot_start: row a may come before row b
OrderByLeq(a, b) ==
    \/ UsnRank(a.usn) < UsnRank(b.usn)
    \/ /\ a.usn = b.usn
       /\ \/ a.day_of_week < b.day_of_week
          \/ /\ a.day_of_week = b.day_of_week
             /\ SecondsOf(a.time_slot_start) <= SecondsOf(b.time_slot_start)

\* the orders in which the selected rows can arrive: any order that agrees
\* with ORDER BY for postgresql, any order at all for supabase, which sends
\* no ordering
ArrivalOrders(user_ids) ==
    LET selected == {avail \in sample_user_availability :
                        user_ids = <<>> \/ avail.usn \in Range(user_ids)}
        n        == Cardinality(selected)
        orders   == {order \in [1..n -> selected] : Range(order) = selected}
    IN  IF db_type = "postgresql"
        THEN {order \in orders :
                \A i \in 1..n, j \in 1..n : i < j => OrderByLeq(order[i], order[j])}
        ELSE orders

LoadIdLists == {<<>>, <<"USN001">>, <<"USN001", "USN002">>, <<UnknownUsn>>}

InitLoad ==
    /\ db_type \in LoadingTypes \cup {"sqlalchemy", "other"}
    /\ sample_users = SampleUsers
    /\ sample_user_availability \in LoadTables
    /\ call = [op |-> "none"]
    /\ result = [kind |-> "none"]
    /\ matcher = MatcherFields
    /\ session_state = SessionStateInit

LoadUserProfiles ==
    /\ Idle
    /\ \E user_ids \in LoadIdLists :
        \E arrival \in ArrivalOrders(user_ids) :
            /\ call' = [op       |-> "load_user_profiles",
                        user_ids |-> user_ids,
                        arrival  |-> arrival]
            /\ result' = LoadSchedules(user_ids, arrival)
            /\ TableUnchanged

NextLoad == LoadUserProfiles \/ Respond

SpecLoad == InitLoad /\ [][NextLoad]_vars

IsLoad == call.op = "load_user_profiles"

\* C23: after the loader has processed the availability rows of a user and a
\* day, in whatever order they arrived, the day's valid set is its available
\* set minus its avoid set.
C23_ValidIsAvailableMinusAvoid ==
    (IsLoad /\ result.kind = "ok") =>
        \A usn \in DOMAIN result.schedules : \A day \in DayNames :
            LET schedule == result.schedules[usn][day]
            IN  schedule.valid = schedule.available \ schedule.avoid

-----------------------------------------------------------------------------
(* Specification of requests served side by side by one matcher             *)

\* the requests that can be in progress at a time
MaxRequests == 2

Requests == 1..MaxRequests

\* calls of the three operations: a pair, a pair over the whole week, a call
\* that raises, a ranking, two teams
FrameCalls ==
    {[op |-> "calculate_schedule_match_percentage", user1_id |-> "USN001",
      user2_id |-> "USN002", preferred_days |-> DayList(<<"monday">>)],
     [op |-> "calculate_schedule_match_percentage", user1_id |-> "USN002",
      user2_id |-> "USN002", preferred_days |-> NoneDays],
     [op |-> "calculate_schedule_match_percentage", user1_id |-> "USN001",
      user2_id |-> "USN002", preferred_days |-> DayList(<<"funday">>)],
     [op |-> "get_profile_recommendations", user_id |-> "USN001",
      candidate_ids |-> <<"USN002", "USN003">>,
      preferred_days |-> DayList(<<"monday">>), min_match_threshold |-> 200],
     [op |-> "find_team_meeting_slots", team_member_ids |-> <<"USN001", "USN002">>,
      preferred_days |-> DayList(<<"monday">>)],
     [op |-> "find_team_meeting_slots",
      team_member_ids |-> <<"USN001", "USN002", "USN003">>,
      preferred_days |-> DayList(<<"monday", "tuesday">>)]}

\* the identifiers the operation passes to load_user_profiles
LoadedIds(request) ==
    CASE request.op = "calculate_schedule_match_percentage" ->
            <<request.user1_id, request.user2_id>>
      [] request.op = "get_profile_recommendations" ->
            <<request.user_id>> \o request.candidate_ids
      [] request.op = "find_team_meeting_slots" -> request.team_member_ids

\* what the operation of a request returns or raises
Invoke(request) ==
    CASE request.op = "calculate_schedule_match_percentage" ->
            calculate_schedule_match_percentage(
                request.user1_id, request.user2_id, request.preferred_days)
      [] request.op = "get_profile_recommendations" ->
            get_profile_recommendations(
                request.user_id, request.candidate_ids, request.preferred_days,
                request.min_match_threshold)
      [] request.op = "find_team_meeting_slots" ->
            find_team_meeting_slots(request.team_member_ids, request.preferred_days)

\* an operation that clears the available sets it has read
ProfilesAfterOperation_cleared(users_data) ==
    [users_data EXCEPT !.profiles =
        [usn \in DOMAIN @ |->
            [@[usn] EXCEPT !.schedule =
                [day \in DayNames |-> [available |-> {}, avoid |-> @[day].avoid]]]]]

\* the loaded profiles after the operation has run: the three operations
\* read them and write to none of them
ProfilesAfterOperation(users_data) == users_data

NoRequest == [pc |-> "idle", request |-> [op |-> "none"], users_data |-> Loaded(NoProfiles)]

FrameWeeks ==
    {[usn \in StoredUsns |-> IF usn = "USN002" THEN WeekCustom ELSE WeekMornings],
     [usn \in StoredUsns |-> IF usn = "USN002" THEN WeekSample ELSE WeekFullCustom]}

InitFrame ==
    /\ db_type \in LoadingTypes
    /\ sample_users = SampleUsers
    /\ \E week \in FrameWeeks :
          sample_user_availability = UNION {RowsFor(usn, week[usn]) : usn \in StoredUsns}
    /\ matcher = MatcherFields
    /\ session_state = SessionStateInit
    /\ call = [r \in Requests |-> NoRequest]
    /\ result = [r \in Requests |-> [kind |-> "none"]]

\* a request enters its operation, which loads the profiles it needs
BeginRequest(r) ==
    /\ call[r].pc = "idle"
    /\ \E request \in FrameCalls :
          call' = [call EXCEPT ![r] =
                      [pc         |-> "loaded",
                       request    |-> request,
                       users_data |-> load_user_profiles(LoadedIds(request))]]
    /\ UNCHANGED result
    /\ TableUnchanged

\* the operation computes over what it loaded and returns
FinishRequest(r) ==
    /\ call[r].pc = "loaded"
    /\ call' = [call EXCEPT ![r].pc = "returned",
                            ![r].users_data = ProfilesAfterOperation(@)]
    /\ result' = [result EXCEPT ![r] = Invoke(call[r].request)]
    /\ TableUnchanged

\* the caller takes the result
ReleaseRequest(r) ==
    /\ call[r].pc = "returned"
    /\ call' = [call EXCEPT ![r] = NoRequest]
    /\ result' = [result EXCEPT ![r] = [kind |-> "none"]]
    /\ TableUnchanged

NextFrame ==
    \E r \in Requests : BeginRequest(r) \/ FinishRequest(r) \/ ReleaseRequest(r)

SpecFrame == InitFrame /\ [][NextFrame]_vars

-----------------------------------------------------------------------------
(* Specification of the matcher over data whose avoid rows change           *)

\* the slots a user may mark to avoid on monday: a grid slot, a slot of the
\* collection form
AvoidSlots == {Slot(8, 0, 10, 0), Slot(9, 0, 12, 0)}

AvoidUsns == {"USN001", "USN002"}

InitAvoid ==
    /\ db_type = "postgresql"
    /\ sample_users = SampleUsers
    /\ \E week \in FrameWeeks :
          sample_user_availability = UNION {RowsFor(usn, week[usn]) : usn \in StoredUsns}
    /\ matcher = MatcherFields
    /\ session_state = SessionStateInit
    /\ call = [op |-> "none"]
    /\ result = [kind |-> "none"]

\* one of the operations is called and returns
InvokeOperation ==
    /\ Idle
    /\ \E request \in FrameCalls :
        /\ call' = request
        /\ result' = Invoke(request)
        /\ TableUnchanged

\* the avoid rows of one user are replaced by others, the available rows
\* kept: the stored data becomes a data set that differs only in what is to
\* avoid
ReplaceAvoidRows ==
    \E usn \in AvoidUsns, slots \in SUBSET AvoidSlots :
        /\ sample_user_availability' =
              {avail \in sample_user_availability : avail.usn # usn \/ avail.is_available}
                \cup RowsFor(usn, {Entry(1, slot, FALSE) : slot \in slots})
        /\ UNCHANGED <<db_type, sample_users, matcher, session_state, call, result>>

NextAvoid == InvokeOperation \/ ReplaceAvoidRows \/ Respond

SpecAvoid == InitAvoid /\ [][NextAvoid]_vars

\* C27: the avoid sets never influence the results of the calculator and of
\* the team finder: what a call returned is what the same call returns on
\* the stored data as it is now, after any replacement of avoid rows.
C27_AvoidNeverInfluences ==
    call.op \in {"calculate_schedule_match_percentage", "find_team_meeting_slots"}
        => result = Invoke(call)

\* a team report in which a member attends 08:00-10:00 on monday while that
\* member has the slot among the available rows and among the avoid rows
C27_Witness ==
    /\ call.op = "find_team_meeting_slots" /\ result.kind = "ok"
    /\ \E i \in DOMAIN result.perfect_slots :
          /\ result.perfect_slots[i].day = "Monday"
          /\ result.perfect_slots[i].start_time = <<8, 0>>
    /\ \E usn \in Range(call.team_member_ids) :
          /\ RowsFor(usn, {Entry(1, Slot(8, 0, 10, 0), TRUE)}) \subseteq sample_user_availability
          /\ RowsFor(usn, {Entry(1, Slot(8, 0, 10, 0), FALSE)}) \subseteq sample_user_availability

-----------------------------------------------------------------------------
(* The data collection form: a wizard of three steps over the session state *)

\* a text typed into a field is a sequence of characters. str.upper() of one
\* character: a small letter becomes its capital, a digit and a capital stay,
\* and the sharp s becomes two letters
UpperChar(c) ==
    CASE c = "m" -> <<"M">>
      [] c = "s" -> <<"S">>
      [] c = "c" -> <<"C">>
      [] c = "ß" -> <<"S", "S">>
      [] OTHER   -> <<c>>

\* str.upper() of a text
RECURSIVE str_upper(_)
str_upper(text) ==
    IF text = <<>> THEN <<>> ELSE UpperChar(Head(text)) \o str_upper(Tail(text))

\* str.lower() of a skill name
str_lower(name) ==
    CASE name = "Python" -> "python"
      [] name = "SQL"    -> "sql"
      [] name = "Sql"    -> "sql"
      [] OTHER           -> name

\* dict.update: the keys of fields are set, the other keys are kept
DictUpdate(form_data, fields) ==
    [key \in DOMAIN form_data \cup DOMAIN fields |->
        IF key \in DOMAIN fields THEN fields[key] ELSE form_data[key]]

\* list.pop(i), with i counted from 1
ListPop(list, i) ==
    [k \in 1..(Len(list) - 1) |-> IF k < i THEN list[k] ELSE list[k + 1]]

\* the records save_user_data builds from one grid of the form
GridRecords(grid, is_available) ==
    {Entry(d - 1, TIME_SLOTS[i], is_available) :
        <<d, i>> \in {p \in (DOMAIN DAYS_OF_WEEK) \X (DOMAIN TIME_SLOTS) :
                        grid[DAYS_OF_WEEK[p[1]]][p[2]]}}

\* the rows save_user_data inserts: the ticked slots of both grids
availability_records(usn, form_data) ==
    RowsFor(usn, GridRecords(form_data.availability, TRUE)
                    \cup GridRecords(form_data.avoid_times, FALSE))

\* how far save_user_data gets before the database raises, if it does
SaveStages == {"connect", "upsert", "delete", "done"}

\* save_user_data on the given tables: the user is upserted under the upper
\* case USN, the user's availability rows are deleted and the rows of the two
\* grids inserted. It returns True, or re-raises what the database raised;
\* what was written before stays written. The skill tables are not modelled.
save_user_data(form_data, users, availability, stage) ==
    LET usn      == str_upper(form_data.usn)
        upserted == {user \in users : user.usn # usn}
                        \cup {[usn        |-> usn,
                               first_name |-> form_data.first_name,
                               last_name  |-> form_data.last_name]}
        deleted  == {avail \in availability : avail.usn # usn}
    IN  CASE stage = "connect" ->
                [users |-> users, availability |-> availability,
                 outcome |-> [kind |-> "raise"]]
          [] stage = "upsert" ->
                [users |-> upserted, availability |-> availability,
                 outcome |-> [kind |-> "raise"]]
          [] stage = "delete" ->
                [users |-> upserted, availability |-> deleted,
                 outcome |-> [kind |-> "raise"]]
          [] OTHER ->
                [users |-> upserted,
                 availability |-> deleted \cup availability_records(usn, form_data),
                 outcome |-> [kind |-> "ok", value |-> TRUE]]

\* a handler that gives up the entries of the form when the save raised
AfterSave_reset(state, outcome) ==
    IF outcome.kind = "ok" /\ outcome.value
    THEN [state EXCEPT !.form_submitted = TRUE]
    ELSE [state EXCEPT !.form_data = EmptyFormData]

\* the session state after the submit handler has called save_user_data:
\* form_submitted is set when it returned True; when it raised, the handler
\* only shows error messages
AfterSave(state, outcome) ==
    IF outcome.kind = "ok" /\ outcome.value
    THEN [state EXCEPT !.form_submitted = TRUE]
    ELSE state

-----------------------------------------------------------------------------
(* Specification of the form wizard                                         *)

Steps == {"personal_info", "skills", "availability"}

\* what a user types into the USN field, which takes ten characters at most:
\* nothing, nine characters, ten characters, ten characters with a sharp s
UsnInputs ==
    {<<>>,
     <<"1", "m", "s", "2", "2", "c", "s", "0", "1">>,
     <<"1", "m", "s", "2", "2", "c", "s", "0", "0", "1">>,
     <<"1", "m", "s", "2", "2", "c", "s", "0", "0", "ß">>}

FirstNameInputs == {"", "Asha"}

LastNameInputs == {"", "Rao"}

DepartmentInputs == {"Computer Science Engineering"}

YearInputs == {1}

\* the skill to add: none chosen, two skills of the database, one custom
\* skill in title case
SkillInputs == {"", "Python", "SQL", "Sql"}

ProficiencyInputs == {3, 5}

\* a grid with the given (day, slot index) pairs ticked
TickedGrid(ticks) ==
    [day \in Range(DAYS_OF_WEEK) |->
        [i \in DOMAIN TIME_SLOTS |-> <<day, i>> \in ticks]]

\* the ticks of the two grids at the time of a submit: none at all, or two
\* available slots, the last slot of the week's first day among them, with one
\* of the two also marked to avoid
GridInputs ==
    {[availability |-> TickedGrid({}), avoid_times |-> TickedGrid({})],
     [availability |-> TickedGrid({<<"Monday", 1>>, <<"Sunday", 4>>}),
      avoid_times  |-> TickedGrid({<<"Monday", 1>>})]}

\* a new session over empty tables
InitWizard ==
    /\ db_type = "supabase"
    /\ sample_users = {}
    /\ sample_user_availability = {}
    /\ matcher = MatcherFields
    /\ session_state = SessionStateInit
    /\ call = [op |-> "none"]
    /\ result = [kind |-> "none"]

\* the form is shown, not the thanks of a submitted form
FormShown(step) ==
    /\ ~session_state.form_submitted
    /\ session_state.current_step = step

DatabaseUnchanged ==
    UNCHANGED <<db_type, sample_users, sample_user_availability, matcher>>

\* "Continue to Skills" of the personal information form
ContinueToSkills ==
    \E usn \in UsnInputs, first_name \in FirstNameInputs,
       last_name \in LastNameInputs, department \in DepartmentInputs,
       year \in YearInputs :
        /\ FormShown("personal_info")
        /\ call' = [op |-> "Continue to Skills", usn |-> usn,
                    first_name |-> first_name, last_name |-> last_name]
        /\ IF usn = <<>> \/ first_name = "" \/ last_name = "" \/ Len(usn) # 10
           THEN /\ result' = [kind |-> "error"]
                /\ UNCHANGED session_state
           ELSE /\ result' = [kind |-> "ok"]
                /\ session_state' =
                      [session_state EXCEPT
                          !.form_data = DictUpdate(@,
                              [usn        |-> str_upper(usn),
                               first_name |-> first_name,
                               last_name  |-> last_name,
                               department |-> department,
                               year       |-> year]),
                          !.current_step = "skills"]
        /\ DatabaseUnchanged

\* "Add Skill" of the skills step
AddSkill ==
    \E skill_to_add \in SkillInputs, proficiency_level \in ProficiencyInputs :
        LET skills == session_state.form_data.skills
            existing_skill_names == {str_lower(s.name) : s \in Range(skills)}
        IN  /\ FormShown("skills")
            /\ call' = [op |-> "Add Skill", name |-> skill_to_add]
            /\ IF skill_to_add # "" /\ str_lower(skill_to_add) \notin existing_skill_names
               THEN /\ result' = [kind |-> "ok"]
                    /\ session_state' =
                          [session_state EXCEPT !.form_data.skills =
                              Append(skills, [name |-> skill_to_add,
                                              proficiency_level |-> proficiency_level])]
               ELSE /\ result' = [kind |-> "error"]
                    /\ UNCHANGED session_state
            /\ DatabaseUnchanged

\* the proficiency slider of a listed skill is moved
ChangeProficiency ==
    \E i \in DOMAIN session_state.form_data.skills,
       new_proficiency \in ProficiencyInputs :
        /\ FormShown("skills")
        /\ new_proficiency # session_state.form_data.skills[i].proficiency_level
        /\ call' = [op |-> "Proficiency", index |-> i]
        /\ result' = [kind |-> "ok"]
        /\ session_state' =
              [session_state EXCEPT
                  !.form_data.skills[i].proficiency_level = new_proficiency]
        /\ DatabaseUnchanged

\* "Remove" of a listed skill
RemoveSkill ==
    \E i \in DOMAIN session_state.form_data.skills :
        /\ FormShown("skills")
        /\ call' = [op |-> "Remove", index |-> i]
        /\ result' = [kind |-> "ok"]
        /\ session_state' =
              [session_state EXCEPT !.form_data.skills = ListPop(@, i)]
        /\ DatabaseUnchanged

\* "Back to Personal Info" of the skills step
BackToPersonalInfo ==
    /\ FormShown("skills")
    /\ call' = [op |-> "Back to Personal Info"]
    /\ result' = [kind |-> "ok"]
    /\ session_state' = [session_state EXCEPT !.current_step = "personal_info"]
    /\ DatabaseUnchanged

\* "Continue to Availability" of the skills step
ContinueToAvailability ==
    /\ FormShown("skills")
    /\ call' = [op |-> "Continue to Availability"]
    /\ IF session_state.form_data.skills = <<>>
       THEN /\ result' = [kind |-> "error"]
            /\ UNCHANGED session_state
       ELSE /\ result' = [kind |-> "ok"]
            /\ session_state' = [session_state EXCEPT !.current_step = "availability"]
    /\ DatabaseUnchanged

\* "Back to Skills" of the availability step: the script reruns before the
\* grids are drawn, so the ticks not yet submitted are not stored
BackToSkills ==
    /\ FormShown("availability")
    /\ call' = [op |-> "Back to Skills"]
    /\ result' = [kind |-> "ok"]
    /\ session_state' = [session_state EXCEPT !.current_step = "skills"]
    /\ DatabaseUnchanged

\* "Submit All Information" of the availability form: drawing the two grids
\* stores the ticks in form_data, then save_user_data is called with it
SubmitAllInformation ==
    \E grids \in GridInputs, stage \in SaveStages :
        LET form_data == [session_state.form_data EXCEPT
                             !.availability = grids.availability,
                             !.avoid_times  = grids.avoid_times]
            saved     == save_user_data(form_data, sample_users,
                                        sample_user_availability, stage)
        IN  /\ FormShown("availability")
            /\ call' = [op |-> "Submit All Information", form_data |-> form_data]
            /\ result' = saved.outcome
            /\ session_state' =
                  AfterSave([session_state EXCEPT !.form_data = form_data],
                            saved.outcome)
            /\ sample_users' = saved.users
            /\ sample_user_availability' = saved.availability
            /\ UNCHANGED <<db_type, matcher>>

\* "Submit another response" under the thanks of a submitted form
SubmitAnotherResponse ==
    /\ session_state.form_submitted
    /\ call' = [op |-> "Submit another response"]
    /\ result' = [kind |-> "ok"]
    /\ session_state' = [form_submitted |-> FALSE,
                         current_step   |-> "personal_info",
                         form_data      |-> EmptyFormData]
    /\ DatabaseUnchanged

\* the buttons of the three steps
StepButtons ==
    \/ ContinueToSkills
    \/ AddSkill
    \/ ChangeProficiency
    \/ RemoveSkill
    \/ BackToPersonalInfo
    \/ ContinueToAvailability
    \/ BackToSkills
    \/ SubmitAllInformation

NextWizard == StepButtons \/ SubmitAnotherResponse

SpecWizard == InitWizard /\ [][NextWizard]_vars

-----------------------------------------------------------------------------
(* Properties of the form wizard                                            *)

\* the last run of the script handled "Submit All Information"
IsSubmit == call.op = "Submit All Information"

\* C29: whatever buttons were pressed, current_step is one of personal_info,
\* skills and availability, and save_user_data is called only with form data
\* that hold a USN of exactly 10 characters, a first and a last name that are
\* not empty, and at least one skill.
C29_SaveOnlyValidatedData ==
    /\ session_state.current_step \in Steps
    /\ IsSubmit =>
          /\ "usn" \in DOMAIN call.form_data
          /\ Len(call.form_data.usn) = 10
          /\ call.form_data.first_name # ""
          /\ call.form_data.last_name # ""
          /\ Len(call.form_data.skills) >= 1

\* C30: form_submitted is True only right after save_user_data returned True
\* from the availability step. When save_user_data raised, form_submitted is
\* still False, current_step is still availability, form_data is what was
\* handed to save_user_data, and the form can be submitted again. Once the
\* form is submitted only "Submit another response" can be pressed; it leaves
\* empty grids and no skills at the personal_info step.
C30_SubmittedOnlyAfterSave ==
    /\ session_state.form_submitted =>
          /\ IsSubmit /\ result = [kind |-> "ok", value |-> TRUE]
          /\ session_state.current_step = "availability"
          /\ ENABLED SubmitAnotherResponse
          /\ ~ENABLED StepButtons
    /\ (IsSubmit /\ result.kind = "raise") =>
          /\ ~session_state.form_submitted
          /\ session_state.current_step = "availability"
          /\ session_state.form_data = call.form_data
          /\ ENABLED SubmitAllInformation
    /\ call.op = "Submit another response" =>
          /\ ~session_state.form_submitted
          /\ session_state.current_step = "personal_info"
          /\ session_state.form_data = EmptyFormData

\* a save that raised after the user had ticked slots and listed skills, the
\* user's row already stored
C30_Witness ==
    /\ IsSubmit /\ result.kind = "raise"
    /\ session_state.form_data.availability # create_availability_grid
    /\ session_state.form_data.skills # <<>>
    /\ sample_users # {}

=============================================================================
